---- MODULE Spec2Model ----
(***************************************************************************)
(* Model of cosmos_predict1/diffusion/training/callbacks/grad_clip.py:     *)
(* the running-average accumulator _MagnitudeRecord and the GradClip       *)
(* callback that owns one accumulator per modality (image, video).         *)
(*                                                                         *)
(* Gradient norms are naturals and a mean is a fraction in lowest terms,   *)
(* <<numerator, denominator>>.  The host objects the callback is handed    *)
(* (model_ddp, the module tree below it, the parallel state) are fixed at  *)
(* construction of a run; the gradients and the norm a clipping routine    *)
(* returns are inputs of each on_before_optimizer_step call.               *)
(*                                                                         *)
(* Two specifications share the actions:                                   *)
(*   Spec      every configuration and host set-up, with the statistics    *)
(*             read before the next optimizer step is recorded;            *)
(*   SpecLoop  one configuration, records accumulating up to MaxUpdates.   *)
(***************************************************************************)
EXTENDS Integers, Sequences, FiniteSets

\* ------------------------------------------------------------- bounds
MaxKeyLen == 3      \* longest model_key, in characters
MaxUpdates == 2     \* most update() calls a record holds between resets (SpecLoop)
MaxNorm == 1        \* largest gradient norm a clipping routine returns

VARIABLES
    model_key,      \* GradClip.model_key: NONE or a string (sequence of characters)
    force_finite,   \* GradClip.force_finite
    fsdp_enabled,   \* GradClip.fsdp_enabled
    clip_norm,      \* GradClip.clip_norm
    host,           \* the host set-up: model_ddp, is_fsdp, tp_world
    img_mag_log,    \* GradClip.img_mag_log:   [state, iter_count]
    video_mag_log,  \* GradClip.video_mag_log: [state, iter_count]
    _cur_state,     \* GradClip._cur_state: "None", or a reference "img" / "video"
    last_batch,     \* history: modality of the most recent on_training_step_start
    hist,           \* history: per record, the values update() received since its last reset
    call            \* history: the last operation, its inputs, the steps it ran, its outcome

vars == <<model_key, force_finite, fsdp_enabled, clip_norm, host,
          img_mag_log, video_mag_log, _cur_state, last_batch, hist, call>>

config == <<model_key, force_finite, fsdp_enabled, clip_norm, host>>

\* ------------------------------------------------------- value domains
NONE == <<"None">>                          \* model_key is None
Chars == {"a", "."}
Strings == UNION {[1..n -> Chars] : n \in 0..MaxKeyLen}
Norms == 0..MaxNorm
ClipNorms == {1, 2}
Records == {"img", "video"}
Params == {1, 2}                            \* the parameters of a sub-module
GradKinds == {"none", "tensor"}             \* param.grad is None / is a tensor
TPWorlds == {0, 1, 2}                       \* 0: parallel state not initialized
ModelDDPs == {"ddp", "model"}               \* the DDP wrapper, or the bare model

\* ------------------------------------------------------ _MagnitudeRecord
\* A freshly constructed record (the dataclass defaults).
NewRecord == [state |-> 0, iter_count |-> 0]

\* Faulty variant: reset() clears the count and keeps the sum.
reset_count_only(rec) == [rec EXCEPT !.iter_count = 0]

\* _MagnitudeRecord.reset
reset(rec) == [state |-> 0, iter_count |-> 0]

\* _MagnitudeRecord.update
update(rec, cur_state) ==
    [state |-> rec.state + cur_state, iter_count |-> rec.iter_count + 1]

RECURSIVE Gcd(_, _)
Gcd(a, b) == IF b = 0 THEN a ELSE Gcd(b, a % b)

\* Faulty variant: floor division instead of true division.
TrueDiv_floor(n, d) == <<n \div d, 1>>

\* state / iter_count, true division: the quotient as a fraction in lowest terms.
TrueDiv(n, d) == LET g == Gcd(n, d) IN <<n \div g, d \div g>>

\* _MagnitudeRecord.get_stat: the value returned ...
get_stat_value(rec) ==
    IF rec.iter_count > 0 THEN TrueDiv(rec.state, rec.iter_count) ELSE <<0, 1>>

\* Faulty variant: get_stat() does not reset.
get_stat_record_noreset(rec) == rec

\* ... and the record it leaves behind.
get_stat_record(rec) == reset(rec)

\* ------------------------------------------------------------ GradClip
Rec(r) == IF r = "img" THEN img_mag_log ELSE video_mag_log

NoCall == [op |-> "init"]

\* Faulty variant: the pointer starts out bound to the image record.
Construct_bound(key, ff, fsdp, clip, h) ==
    /\ model_key = key
    /\ force_finite = ff
    /\ fsdp_enabled = fsdp
    /\ clip_norm = clip
    /\ host = h
    /\ img_mag_log = NewRecord
    /\ video_mag_log = NewRecord
    /\ _cur_state = "img"
    /\ last_batch = "None"
    /\ hist = [r \in Records |-> <<>>]
    /\ call = NoCall

\* GradClip.__init__, for the configuration and host set-up given
Construct(key, ff, fsdp, clip, h) ==
    /\ model_key = key
    /\ force_finite = ff
    /\ fsdp_enabled = fsdp
    /\ clip_norm = clip
    /\ host = h
    /\ img_mag_log = NewRecord
    /\ video_mag_log = NewRecord
    /\ _cur_state = "None"
    /\ last_batch = "None"
    /\ hist = [r \in Records |-> <<>>]
    /\ call = NoCall

Hosts == [model_ddp : ModelDDPs, is_fsdp : BOOLEAN, tp_world : TPWorlds]

Init ==
    \E key \in Strings \cup {NONE}, ff \in BOOLEAN, fsdp \in BOOLEAN,
       clip \in ClipNorms, h \in Hosts :
        Construct(key, ff, fsdp, clip, h)

\* Faulty variant: the two branches swapped.
SelectRecord_swapped(is_image_batch) == IF is_image_batch THEN "video" ELSE "img"

\* The record on_training_step_start selects for a batch.
SelectRecord(is_image_batch) == IF is_image_batch THEN "img" ELSE "video"

\* GradClip.on_training_step_start
on_training_step_start(is_image_batch) ==
    /\ _cur_state' = SelectRecord(is_image_batch)
    /\ last_batch' = IF is_image_batch THEN "image" ELSE "video"
    /\ call' = [op |-> "on_training_step_start", is_image_batch |-> is_image_batch]
    /\ UNCHANGED <<config, img_mag_log, video_mag_log, hist>>

\* ---- the host objects on_before_optimizer_step walks: the model holds a
\* sub-module a ("net"), which holds a sub-module a ("blk").

\* isinstance(model_ddp, distributed.DistributedDataParallel)
IsDDP(obj) == obj = "ddp"

\* hasattr(obj, name) for a sub-module name
HasAttr(obj, name) == obj \in {"model", "net"} /\ name = <<"a">>

\* getattr(obj, name), where it exists
GetAttr(obj, name) == IF obj = "model" THEN "net" ELSE "blk"

\* model_ddp.module exists on the wrapper only
HasModule(obj) == obj = "ddp"

\* if isinstance(model_ddp, DistributedDataParallel): model = model_ddp.module
\* else: model = model_ddp
Unwrap(model_ddp) == IF IsDDP(model_ddp) THEN "model" ELSE model_ddp

\* str.split("."): the segments between the dots, "" included
RECURSIVE Split(_)
Split(s) ==
    IF \A i \in 1..Len(s) : s[i] # "."
    THEN <<s>>
    ELSE LET i == CHOOSE j \in 1..Len(s) :
                      s[j] = "." /\ \A k \in 1..(j - 1) : s[k] # "."
         IN  <<SubSeq(s, 1, i - 1)>> \o Split(SubSeq(s, i + 1, Len(s)))

\* Faulty variant: a segment that does not resolve is skipped (getattr with a default).
RECURSIVE Resolve_lenient(_, _, _)
Resolve_lenient(model, items, i) ==
    IF i > Len(items) THEN [model |-> model, at |-> 0]
    ELSE IF HasAttr(model, items[i])
         THEN Resolve_lenient(GetAttr(model, items[i]), items, i + 1)
         ELSE Resolve_lenient(model, items, i + 1)

\* for item in items: model = getattr(model, item)
\* at = 0 when every segment resolved, else the index of the segment that raised
RECURSIVE Resolve(_, _, _)
Resolve(model, items, i) ==
    IF i > Len(items) THEN [model |-> model, at |-> 0]
    ELSE IF HasAttr(model, items[i]) THEN Resolve(GetAttr(model, items[i]), items, i + 1)
    ELSE [model |-> model, at |-> i]

\* params: the parameters whose grad is not None, handed to _fused_nan_to_num
CollectParams(grads) == {p \in Params : grads[p] # "none"}

\* parallel_state.is_initialized()
IsInitialized(tp_world) == tp_world # 0

\* Faulty variant: the tensor-parallel test comes before the FSDP test.
ClipChoice_tp_first(model_ddp, model, is_fsdp, tp_world) ==
    IF IsInitialized(tp_world) /\ tp_world > 1
    THEN [routine |-> "tensor_parallel", receiver |-> "model_ddp.module"]
    ELSE IF is_fsdp /\ fsdp_enabled
         THEN [routine |-> "fsdp", receiver |-> model]
         ELSE [routine |-> "torch", receiver |-> model]

\* The clipping routine lines 90-96 choose: its name and the object it is called on.
ClipChoice(model_ddp, model, is_fsdp, tp_world) ==
    IF is_fsdp /\ fsdp_enabled
    THEN [routine |-> "fsdp", receiver |-> model]
    ELSE IF IsInitialized(tp_world) /\ tp_world > 1
         THEN [routine |-> "tensor_parallel", receiver |-> "model_ddp.module"]
         ELSE [routine |-> "torch", receiver |-> model]

\* The argument every clipping routine is given as the maximum norm.
ClipArg == clip_norm

\* Faulty variant: the clipping routine runs before the sanitization.
StepsAfterResolve_clip_first == IF force_finite THEN <<"clip", "sanitize", "update">>
                                                ELSE <<"clip", "update">>

\* The steps of the body under "if self.model_key is not None", in order.
StepsAfterResolve == IF force_finite THEN <<"sanitize", "clip", "update">>
                                     ELSE <<"clip", "update">>

\* The first n steps of a call whose resolution succeeded.
Ran(n) == <<"resolve">> \o SubSeq(StepsAfterResolve, 1, n)

\* One on_before_optimizer_step call: the steps it ran, in order, up to the
\* first one that raised; what each step was given; and how the call ended.
RunSteps(model_ddp, is_fsdp, tp_world, grads, norm) ==
    LET blank == [trace |-> <<>>, outcome |-> "returned", resolved |-> "None",
                  failed_at |-> 0, sanitized |-> {}, routine |-> "None",
                  receiver |-> "None", max_norm |-> 0, norm |-> 0]
    IN
    IF model_key = NONE THEN blank
    ELSE
      LET res == Resolve(Unwrap(model_ddp), Split(model_key), 1) IN
      IF res.at # 0
      THEN [blank EXCEPT !.outcome = "raised_resolve", !.failed_at = res.at]
      ELSE
        LET n  == Len(StepsAfterResolve)
            s1 == [blank EXCEPT !.resolved = res.model,
                                !.sanitized = IF force_finite THEN CollectParams(grads)
                                                              ELSE {}]
            ch == ClipChoice(model_ddp, res.model, is_fsdp, tp_world)
        IN
        IF ch.routine = "tensor_parallel" /\ ~HasModule(model_ddp)
        THEN [s1 EXCEPT !.trace = Ran(n - 2), !.outcome = "raised_clip"]
        ELSE
          LET s2 == [s1 EXCEPT !.routine = ch.routine, !.receiver = ch.receiver,
                               !.max_norm = ClipArg, !.norm = norm]
          IN
          IF _cur_state = "None"
          THEN [s2 EXCEPT !.trace = Ran(n - 1), !.outcome = "raised_update"]
          ELSE [s2 EXCEPT !.trace = Ran(n)]

Updated(run) == run.trace # <<>> /\ run.trace[Len(run.trace)] = "update"

\* Faulty variant: the norm always goes to the image record.
UpdateTarget_img == "img"

\* The record line 98 updates: the one self._cur_state refers to.
UpdateTarget == _cur_state

\* GradClip.on_before_optimizer_step, called with the host's model_ddp;
\* norm is what the clipping routine returns
on_before_optimizer_step(grads, norm) ==
    LET run == RunSteps(host.model_ddp, host.is_fsdp, host.tp_world, grads, norm)
        upd == Updated(run)
    IN
    /\ call' = [op |-> "on_before_optimizer_step", grads |-> grads, run |-> run]
    /\ img_mag_log' = IF upd /\ UpdateTarget = "img"
                      THEN update(img_mag_log, norm) ELSE img_mag_log
    /\ video_mag_log' = IF upd /\ UpdateTarget = "video"
                        THEN update(video_mag_log, norm) ELSE video_mag_log
    /\ hist' = IF upd THEN [hist EXCEPT ![UpdateTarget] = Append(@, norm)] ELSE hist
    /\ UNCHANGED <<config, _cur_state, last_batch>>

\* ---- the records' own operations, called by the host (the logging side)
SetRec(r, rec) ==
    /\ img_mag_log' = IF r = "img" THEN rec ELSE img_mag_log
    /\ video_mag_log' = IF r = "video" THEN rec ELSE video_mag_log

record_reset(r) ==
    /\ SetRec(r, reset(Rec(r)))
    /\ hist' = [hist EXCEPT ![r] = <<>>]
    /\ call' = [op |-> "reset", rec |-> r]
    /\ UNCHANGED <<config, _cur_state, last_batch>>

record_update(r, v) ==
    /\ SetRec(r, update(Rec(r), v))
    /\ hist' = [hist EXCEPT ![r] = Append(@, v)]
    /\ call' = [op |-> "update", rec |-> r, value |-> v]
    /\ UNCHANGED <<config, _cur_state, last_batch>>

record_get_stat(r) ==
    /\ SetRec(r, get_stat_record(Rec(r)))
    /\ hist' = [hist EXCEPT ![r] = <<>>]
    /\ call' = [op |-> "get_stat", rec |-> r, ret |-> get_stat_value(Rec(r))]
    /\ UNCHANGED <<config, _cur_state, last_batch>>

\* ---- Spec: every configuration and host set-up; an optimizer step is
\* recorded only after the statistics of the previous one were read.
Next ==
    \/ \E b \in BOOLEAN : on_training_step_start(b)
    \/ \E g \in [Params -> GradKinds], n \in Norms :
          /\ hist.img = <<>> /\ hist.video = <<>>
          /\ on_before_optimizer_step(g, n)
    \/ \E r \in Records : record_reset(r)
    \/ \E r \in Records : record_get_stat(r)

Spec == Init /\ [][Next]_vars

\* ---- SpecLoop: one configuration (sub-module "a", sanitizing, DDP-wrapped,
\* no sharding); the records accumulate up to MaxUpdates values each.
InitLoop ==
    Construct(<<"a">>, TRUE, FALSE, 1,
              [model_ddp |-> "ddp", is_fsdp |-> FALSE, tp_world |-> 0])

NextLoop ==
    \/ \E b \in BOOLEAN : on_training_step_start(b)
    \/ \E g \in [Params -> GradKinds], n \in Norms :
          /\ _cur_state # "None" => Rec(_cur_state).iter_count < MaxUpdates
          /\ on_before_optimizer_step(g, n)
    \/ \E r \in Records : record_reset(r)
    \/ \E r \in Records, v \in Norms :
          /\ Rec(r).iter_count < MaxUpdates
          /\ record_update(r, v)
    \/ \E r \in Records : record_get_stat(r)

SpecLoop == InitLoop /\ [][NextLoop]_vars

\* ================================================================ claims
RECURSIVE Sum(_)
Sum(seq) == IF seq = <<>> THEN 0 ELSE seq[1] + Sum(Tail(seq))

Zero == [state |-> 0, iter_count |-> 0]
Other(r) == IF r = "img" THEN "video" ELSE "img"
RecNext(r) == IF r = "img" THEN img_mag_log' ELSE video_mag_log'
IsStep == call.op = "on_before_optimizer_step"

\* C1: get_stat() returns the mean of the values update() received since the
\* record's last reset() or get_stat() (or construction), and 0 when there
\* were none.  The returned fraction ret = <<p, q>> is the mean of the
\* history h exactly when q > 0 and p * Len(h) = q * Sum(h).
C1_GetStatReturnsMean ==
    [][call'.op = "get_stat" =>
         LET h == hist[call'.rec]
             ret == call'.ret
         IN  IF Len(h) > 0
             THEN ret[2] > 0 /\ ret[1] * Len(h) = ret[2] * Sum(h)
             ELSE ret = <<0, 1>>]_vars

\* A get_stat() that returned the mean 1/2 of two updates.
C1_Witness == call.op = "get_stat" /\ call.ret = <<1, 2>>

\* C2: get_stat() resets the record on both branches: right after it the
\* record's sum and count are 0; a second get_stat() with no update in
\* between returns 0; and the first value recorded after a get_stat() starts
\* the sum afresh, so earlier values do not enter any later mean.
C2_GetStatResets ==
    /\ [](call.op = "get_stat" => Rec(call.rec) = Zero)
    /\ [][(call.op = "get_stat" /\ call'.op = "get_stat" /\ call'.rec = call.rec)
            => call'.ret = <<0, 1>>]_vars
    /\ [][(call.op = "get_stat" /\ call'.op = "update" /\ call'.rec = call.rec)
            => RecNext(call.rec) = [state |-> call'.value, iter_count |-> 1]]_vars

\* A get_stat() on the count > 0 branch (it returned the mean MaxNorm) that
\* left the record zeroed.
C2_Witness ==
    /\ call.op = "get_stat" /\ call.ret = <<MaxNorm, 1>>
    /\ Rec(call.rec) = Zero

\* C10: in every reachable state each record's count is a natural number equal
\* to the number of update() calls since its last reset()/get_stat(), its sum
\* is the total of the values of those calls, and count = 0 implies sum = 0;
\* update() raises the count by exactly one and reset() zeroes both fields.
C10_RecordInvariant ==
    /\ [](\A r \in Records :
            /\ Rec(r).iter_count \in Nat
            /\ Rec(r).iter_count = Len(hist[r])
            /\ Rec(r).state = Sum(hist[r])
            /\ Rec(r).iter_count = 0 => Rec(r).state = 0)
    /\ [][call'.op = "update" =>
            /\ RecNext(call'.rec).iter_count = Rec(call'.rec).iter_count + 1
            /\ RecNext(Other(call'.rec)) = Rec(Other(call'.rec))]_vars
    /\ [][call'.op = "reset" => RecNext(call'.rec) = Zero]_vars

\* A reset() of a record that held MaxUpdates values, the last of them non-zero.
C10_Witness ==
    /\ call.op = "reset" /\ Rec(call.rec) = Zero
    /\ Rec(Other(call.rec)).iter_count = MaxUpdates
    /\ Rec(Other(call.rec)).state = MaxUpdates * MaxNorm

\* C6: a norm recorded by on_before_optimizer_step goes to the record of the
\* modality of the most recent on_training_step_start; the other record
\* keeps its sum and count; the call never changes the active-record pointer.
C6_NormGoesToSelectedRecord ==
    [][call'.op = "on_before_optimizer_step" =>
         /\ _cur_state' = _cur_state
         /\ IF Updated(call'.run)
            THEN LET r == IF last_batch = "image" THEN "img" ELSE "video" IN
                 /\ last_batch # "None"
                 /\ RecNext(r) = [state |-> Rec(r).state + call'.run.norm,
                               iter_count |-> Rec(r).iter_count + 1]
                 /\ RecNext(Other(r)) = Rec(Other(r))
            ELSE img_mag_log' = img_mag_log /\ video_mag_log' = video_mag_log]_vars

\* A video step recorded while the image record holds values of earlier steps.
C6_Witness ==
    /\ IsStep /\ Updated(call.run) /\ call.run.norm = MaxNorm
    /\ last_batch = "video"
    /\ video_mag_log = [state |-> MaxNorm, iter_count |-> 1]
    /\ img_mag_log.iter_count = MaxUpdates

\* ---- what the claims about one on_before_optimizer_step call refer to
Range(seq) == {seq[i] : i \in 1..Len(seq)}
Count(seq, x) == Cardinality({i \in 1..Len(seq) : seq[i] = x})
Rank(step) == CASE step = "resolve" -> 1 [] step = "sanitize" -> 2
                [] step = "clip" -> 3 [] step = "update" -> 4
InOrder(trace) == \A i, j \in 1..Len(trace) : i < j => Rank(trace[i]) < Rank(trace[j])

KeySet == model_key # NONE
\* The paths that exist below the model: a, and a.a.
PathResolves == model_key \in {<<"a">>, <<"a", ".", "a">>}
SubModule == IF model_key = <<"a">> THEN "net" ELSE "blk"
StartSeen == last_batch # "None"
WantsFSDP == host.is_fsdp /\ fsdp_enabled
WantsTP == ~WantsFSDP /\ host.tp_world > 1
\* model_ddp.module.clip_grad_norm_ cannot be looked up on a bare model
NoWrappedModule == WantsTP /\ host.model_ddp # "ddp"

\* C3: every on_before_optimizer_step that returns normally, made after an
\* on_training_step_start, raises the active record's count by one and its
\* sum by the computed norm, for every value of model_key, force_finite and
\* fsdp_enabled.
C3_ReturningStepRecords ==
    [][(call'.op = "on_before_optimizer_step" /\ call'.run.outcome = "returned"
          /\ StartSeen)
        => RecNext(_cur_state) = [state |-> Rec(_cur_state).state + call'.run.norm,
                                  iter_count |-> Rec(_cur_state).iter_count + 1]]_vars

\* C4: on_training_step_start binds the pointer to the image record for an
\* image batch and to the video record otherwise, and changes nothing else.
C4_StartOnlyBinds ==
    [][call'.op = "on_training_step_start" =>
         /\ _cur_state' = IF call'.is_image_batch THEN "img" ELSE "video"
         /\ UNCHANGED <<img_mag_log, video_mag_log, config>>]_vars

\* A video batch starting while the image record holds a recorded norm.
C4_Witness ==
    /\ call.op = "on_training_step_start" /\ ~call.is_image_batch
    /\ _cur_state = "video"
    /\ img_mag_log = [state |-> MaxNorm, iter_count |-> 1]

\* C5: when the model_key path does not resolve, on_before_optimizer_step
\* raises from the resolution; no sanitization and no clipping routine has
\* run, and neither record nor the pointer has changed.
C5_ResolveFailureLeavesState ==
    /\ []((IsStep /\ KeySet /\ ~PathResolves) =>
            /\ call.run.outcome = "raised_resolve"
            /\ call.run.failed_at > 0
            /\ Range(call.run.trace) \cap {"sanitize", "clip", "update"} = {}
            /\ call.run.sanitized = {} /\ call.run.routine = "None")
    /\ [][(call'.op = "on_before_optimizer_step" /\ KeySet /\ ~PathResolves)
            => UNCHANGED <<img_mag_log, video_mag_log, _cur_state>>]_vars

\* The path "a." fails on its second segment, with sanitization configured
\* and a record bound.
C5_Witness ==
    /\ IsStep /\ model_key = <<"a", ".">> /\ call.run.failed_at = 2
    /\ force_finite /\ _cur_state = "img"
    /\ call.run.outcome = "raised_resolve"

\* The order and the sanitization of one call (C7).
StepOrder ==
    /\ InOrder(call.run.trace)
    /\ ("sanitize" \in Range(call.run.trace)) <=> force_finite
    /\ force_finite => call.run.sanitized = {p \in Params : call.grads[p] # "none"}
    /\ "clip" \in Range(call.run.trace) => "resolve" \in Range(call.run.trace)
    /\ "update" \in Range(call.run.trace) => "clip" \in Range(call.run.trace)

\* C7 as stated: in every call with model_key set the steps run in the order
\* resolution, sanitization, clipping, record update; sanitization runs iff
\* force_finite, on exactly the grads that are not None, before the clipping.
C7_Original == (IsStep /\ KeySet) => StepOrder

\* C7, amended: the same, for every call with model_key set whose sub-module
\* resolution succeeds.
C7_StepOrder == (IsStep /\ KeySet /\ PathResolves) => StepOrder

\* A call that ran all four steps and sanitized the one grad that is not None.
C7_Witness ==
    /\ IsStep /\ force_finite /\ call.run.sanitized = {1}
    /\ call.run.trace = <<"resolve", "sanitize", "clip", "update">>

\* The routine one call invokes (C8): the FSDP routine of the resolved
\* sub-module, else the routine of model_ddp.module under tensor parallelism,
\* else the torch routine on the resolved sub-module; clip_norm is the maximum.
OneRoutine ==
    /\ Count(call.run.trace, "clip") = 1
    /\ call.run.routine = IF WantsFSDP THEN "fsdp"
                          ELSE IF WantsTP THEN "tensor_parallel" ELSE "torch"
    /\ call.run.receiver = IF WantsTP THEN "model_ddp.module" ELSE SubModule
    /\ call.run.max_norm = clip_norm

\* C8 as stated: every call with model_key set invokes exactly one clipping
\* routine, once, chosen as above.
C8_Original == (IsStep /\ KeySet) => OneRoutine

\* C8, amended: every call with model_key set whose resolution succeeds
\* invokes exactly one routine, once, chosen as above; except that when the
\* tensor-parallel routine is chosen and model_ddp is not a DDP wrapper the
\* lookup of model_ddp.module raises and no routine is invoked.
C8_OneRoutine ==
    (IsStep /\ KeySet /\ PathResolves) =>
        IF NoWrappedModule
        THEN /\ Count(call.run.trace, "clip") = 0
             /\ call.run.outcome = "raised_clip"
        ELSE OneRoutine

\* An FSDP sub-module under tensor parallelism: the FSDP routine wins.
C8_Witness ==
    /\ IsStep /\ host.is_fsdp /\ fsdp_enabled /\ host.tp_world = 2
    /\ call.run.routine = "fsdp" /\ call.run.receiver = "blk"
    /\ call.run.max_norm = 2

\* The pointer is None until the first on_training_step_start and refers to
\* one of the two records from then on (C9).
PointerBound ==
    /\ ~StartSeen => _cur_state = "None"
    /\ StartSeen => _cur_state \in Records

\* C9 as stated: the pointer is None until the first on_training_step_start
\* and a record from then on; a call with model_key set before any
\* on_training_step_start fails at the record update and changes neither
\* record; after one it never fails at the record update.
C9_Original ==
    /\ PointerBound
    /\ (IsStep /\ KeySet /\ ~StartSeen) =>
           /\ call.run.outcome = "raised_update"
           /\ img_mag_log = Zero /\ video_mag_log = Zero
    /\ (IsStep /\ StartSeen) => call.run.outcome # "raised_update"

\* C9, amended: the pointer is None until the first on_training_step_start
\* and a record from then on; a call with model_key set before any
\* on_training_step_start raises and changes neither record, and it fails at
\* the record update when the resolution and the clipping call succeed;
\* after an on_training_step_start no call fails at the record update.
C9_PointerBound ==
    /\ PointerBound
    /\ (IsStep /\ KeySet /\ ~StartSeen) =>
           /\ call.run.outcome # "returned"
           /\ (PathResolves /\ ~NoWrappedModule) => call.run.outcome = "raised_update"
           /\ img_mag_log = Zero /\ video_mag_log = Zero
    /\ (IsStep /\ StartSeen) => call.run.outcome # "raised_update"

\* A call before any on_training_step_start that clipped and then failed at
\* the record update.
C9_Witness ==
    /\ IsStep /\ ~StartSeen /\ call.run.outcome = "raised_update"
    /\ call.run.trace = <<"resolve", "sanitize", "clip">>
====
